---------------------------- MODULE Spec2Model ----------------------------
(***************************************************************************)
(* Model of the file processing service (src/app.py): the /process         *)
(* pipeline (attachment loading, prompt assembly, completion call, reply   *)
(* parsing) and the Firestore collection/subcollection query route with    *)
(* its API key wrapper.                                                    *)
(*                                                                         *)
(* Python strings are sequences of code points (integers); bytes objects   *)
(* are sequences of integers 0..255.  Fixed message prefixes of f-strings  *)
(* are kept as TLA+ strings next to the interpolated value.                *)
(***************************************************************************)
EXTENDS Integers, Sequences, FiniteSets, TLC

VARIABLES
    route,            \* which endpoint the request is for: "process" | "query"
    environ,          \* process environment: [API_KEY]
    request,          \* the HTTP request (headers, form, files, query args)
    pc,               \* position of the request handler
    response,         \* HTTP response sent, NoResponse until the handler returns
    \* ---- /process ----
    completion,       \* what the external completion API does when called
    mail_id,          \* local of process_files
    fileIdx,          \* index of the next uploaded file of the for loop
    files_data,       \* local of process_files
    loadLog,          \* the calls of process_file_content made: input and result
    readCount,        \* number of file.read() calls made
    messages,         \* local of analyze_documents_with_openai
    apiCalls,         \* number of calls of openai_client.chat.completions.create
    reply,            \* response.choices[0].message.content of the call
    analysis_result,  \* value returned by analyze_documents_with_openai
    \* ---- /collections/<c>/subcollections/<s> ----
    db,               \* Firestore content: the documents of the collection, in stream order
    dbQueries,        \* number of Firestore queries streamed
    collection_filters,
    subcollection_filters,
    collection_docs,  \* documents the parent query returned
    docIdx,           \* index of the next parent of the for loop
    results,          \* local of query_firestore_with_subcollection
    resultSrc         \* for each entry of results, the index in collection_docs it was built from

procVars == <<completion, mail_id, fileIdx, files_data, loadLog, readCount,
              messages, apiCalls, reply, analysis_result>>

queryVars == <<db, dbQueries, collection_filters, subcollection_filters,
               collection_docs, docIdx, results, resultSrc>>

vars == <<route, environ, request, pc, response, procVars, queryVars>>

----------------------------------------------------------------------------
(* Bounds of the model *)

MaxFiles == 3         \* uploaded files per /process request
MaxStemLen == 1       \* characters in front of the extension of a generated filename
MaxBytes == 2         \* bytes of an uploaded file
MaxReplyLen == 4      \* lexical tokens of a completion reply
MaxParents == 1       \* documents of the queried collection
MaxChildren == 2      \* documents of one subcollection

----------------------------------------------------------------------------
(* Sequences and Python str helpers *)

RECURSIVE SeqsUpTo(_, _)
SeqsUpTo(S, n) ==
    IF n = 0 THEN {<<>>}
    ELSE LET shorter == SeqsUpTo(S, n - 1)
         IN  shorter \cup {Append(s, x) : s \in {t \in shorter : Len(t) = n - 1}, x \in S}

Last(s) == s[Len(s)]

Range(s) == {s[i] : i \in 1..Len(s)}

\* str.lower() on one code point (the names reaching it are ASCII: see secure_filename)
lower_char(c) == IF c >= 65 /\ c <= 90 THEN c + 32 ELSE c

\* str.lower()
lower(s) == [i \in 1..Len(s) |-> lower_char(s[i])]

\* str.endswith(suffix)
endswith(s, suffix) ==
    /\ Len(suffix) <= Len(s)
    /\ SubSeq(s, Len(s) - Len(suffix) + 1, Len(s)) = suffix

----------------------------------------------------------------------------
(* File Classifier *)

ALLOWED_EXTENSIONS ==
    { <<46, 116, 120, 116>>,            \* .txt
      <<46, 112, 100, 102>>,            \* .pdf
      <<46, 100, 111, 99>>,             \* .doc
      <<46, 100, 111, 99, 120>>,        \* .docx
      <<46, 112, 110, 103>>,            \* .png
      <<46, 106, 112, 103>>,            \* .jpg
      <<46, 106, 112, 101, 103>>,       \* .jpeg
      <<46, 98, 109, 112>>,             \* .bmp
      <<46, 103, 105, 102>>,            \* .gif
      <<46, 116, 105, 102, 102>>,       \* .tiff
      <<46, 119, 101, 98, 112>> }       \* .webp

IMAGE_EXTENSIONS ==
    { <<46, 112, 110, 103>>,            \* .png
      <<46, 106, 112, 103>>,            \* .jpg
      <<46, 106, 112, 101, 103>>,       \* .jpeg
      <<46, 98, 109, 112>>,             \* .bmp
      <<46, 103, 105, 102>>,            \* .gif
      <<46, 116, 105, 102, 102>>,       \* .tiff
      <<46, 119, 101, 98, 112>> }       \* .webp

is_allowed_file(filename) ==
    \E ext \in ALLOWED_EXTENSIONS : endswith(lower(filename), ext)

\* the classifier with the lower() call left out
is_image_file_case_sensitive(filename) ==
    \E ext \in IMAGE_EXTENSIONS : endswith(filename, ext)

is_image_file(filename) ==
    \E ext \in IMAGE_EXTENSIONS : endswith(lower(filename), ext)

----------------------------------------------------------------------------
(* werkzeug.utils.secure_filename, as process_file_content calls it *)

\* unicodedata.normalize("NFKD", .) on one code point, tabulated for the code
\* points of the filename alphabet: U+00E9 decomposes to "e" + U+0301
NFKD_char(c) == IF c = 233 THEN <<101, 769>> ELSE <<c>>

\* .encode("ascii", "ignore").decode("ascii")
ascii_ignore_char(c) == IF c < 128 THEN <<c>> ELSE <<>>

\* .replace(os.sep, " ") with os.sep = "/"
replace_sep_char(c) == IF c = 47 THEN <<32>> ELSE <<c>>

IsSpace(c) == c \in {9, 10, 11, 12, 13, 28, 29, 30, 31, 32}

\* "_".join(s.split()): runs of whitespace become one "_", none at either end
RECURSIVE JoinSplit(_, _)
JoinSplit(s, started) ==
    IF s = <<>> THEN <<>>
    ELSE IF IsSpace(Head(s)) THEN
            LET rest == JoinSplit(Tail(s), started)
            IN  IF started /\ Tail(s) # <<>> /\ ~IsSpace(Head(Tail(s)))
                THEN <<95>> \o rest ELSE rest
         ELSE <<Head(s)>> \o JoinSplit(Tail(s), TRUE)

\* _filename_ascii_strip_re = [^A-Za-z0-9_.-]
IsFilenameChar(c) ==
    \/ c >= 65 /\ c <= 90
    \/ c >= 97 /\ c <= 122
    \/ c >= 48 /\ c <= 57
    \/ c \in {95, 46, 45}

ascii_strip_char(c) == IF IsFilenameChar(c) THEN <<c>> ELSE <<>>

\* one rewriting step of secure_filename on one character
RewriteChar(step, c) ==
    CASE step = "normalize"  -> NFKD_char(c)
      [] step = "encode"     -> ascii_ignore_char(c)
      [] step = "replace"    -> replace_sep_char(c)
      [] step = "sub"        -> ascii_strip_char(c)

\* a rewriting step applied to every character of s
RECURSIVE FlatMap(_, _)
FlatMap(step, s) ==
    IF s = <<>> THEN <<>> ELSE RewriteChar(step, Head(s)) \o FlatMap(step, Tail(s))

RECURSIVE LStrip(_, _)
LStrip(s, chars) ==
    IF s # <<>> /\ Head(s) \in chars THEN LStrip(Tail(s), chars) ELSE s

RECURSIVE RStrip(_, _)
RStrip(s, chars) ==
    IF s # <<>> /\ Last(s) \in chars THEN RStrip(SubSeq(s, 1, Len(s) - 1), chars) ELSE s

\* .strip("._")
strip_dots(s) == RStrip(LStrip(s, {46, 95}), {46, 95})

\* secure_filename on a POSIX host (the Windows device-name rule applies on os.name = "nt" only)
secure_filename(raw) ==
    LET normalized == FlatMap("normalize", raw)
        ascii      == FlatMap("encode", normalized)
        nosep      == FlatMap("replace", ascii)
        joined     == JoinSplit(nosep, FALSE)
        stripped   == FlatMap("sub", joined)
    IN  strip_dots(stripped)

----------------------------------------------------------------------------
(* bytes.decode('utf-8') and base64.b64encode *)

IsCont(b) == b >= 128 /\ b <= 191

\* length of the well-formed UTF-8 sequence at the head of bs, 0 if there is none
Utf8Len(bs) ==
    LET n  == Len(bs)
        b0 == bs[1]
    IN  IF b0 < 128 THEN 1
        ELSE IF b0 >= 194 /\ b0 <= 223
             THEN IF n >= 2 /\ IsCont(bs[2]) THEN 2 ELSE 0
        ELSE IF b0 >= 224 /\ b0 <= 239
             THEN IF /\ n >= 3
                     /\ IsCont(bs[2])
                     /\ IsCont(bs[3])
                     /\ (b0 = 224 => bs[2] >= 160)      \* no overlong form
                     /\ (b0 = 237 => bs[2] <= 159)      \* no surrogate
                  THEN 3 ELSE 0
        ELSE IF b0 >= 240 /\ b0 <= 244
             THEN IF /\ n >= 4
                     /\ IsCont(bs[2])
                     /\ IsCont(bs[3])
                     /\ IsCont(bs[4])
                     /\ (b0 = 240 => bs[2] >= 144)      \* no overlong form
                     /\ (b0 = 244 => bs[2] <= 143)      \* at most U+10FFFF
                  THEN 4 ELSE 0
        ELSE 0

\* the code point of the well-formed sequence of length k at the head of bs
Utf8CodePoint(bs, k) ==
    CASE k = 1 -> bs[1]
      [] k = 2 -> (bs[1] - 192) * 64 + (bs[2] - 128)
      [] k = 3 -> (bs[1] - 224) * 4096 + (bs[2] - 128) * 64 + (bs[3] - 128)
      [] k = 4 -> (bs[1] - 240) * 262144 + (bs[2] - 128) * 4096
                      + (bs[3] - 128) * 64 + (bs[4] - 128)

\* bytes.decode('utf-8'): [ok |-> TRUE, text |-> code points], or ok = FALSE for
\* UnicodeDecodeError
RECURSIVE utf8_decode(_)
utf8_decode(bs) ==
    IF bs = <<>> THEN [ok |-> TRUE, text |-> <<>>]
    ELSE LET k == Utf8Len(bs)
         IN  IF k = 0 THEN [ok |-> FALSE, text |-> <<>>]
             ELSE LET rest == utf8_decode(SubSeq(bs, k + 1, Len(bs)))
                  IN  IF rest.ok
                      THEN [ok |-> TRUE, text |-> <<Utf8CodePoint(bs, k)>> \o rest.text]
                      ELSE [ok |-> FALSE, text |-> <<>>]

\* the base64 alphabet: the character (code point) of a 6-bit value
B64Char(v) ==
    IF v < 26 THEN 65 + v
    ELSE IF v < 52 THEN 97 + (v - 26)
    ELSE IF v < 62 THEN 48 + (v - 52)
    ELSE IF v = 62 THEN 43
    ELSE 47

\* base64.b64encode(bs).decode('utf-8')
RECURSIVE b64encode(_)
b64encode(bs) ==
    IF bs = <<>> THEN <<>>
    ELSE IF Len(bs) = 1 THEN
        <<B64Char(bs[1] \div 4), B64Char((bs[1] % 4) * 16), 61, 61>>
    ELSE IF Len(bs) = 2 THEN
        <<B64Char(bs[1] \div 4),
          B64Char((bs[1] % 4) * 16 + bs[2] \div 16),
          B64Char((bs[2] % 16) * 4), 61>>
    ELSE
        <<B64Char(bs[1] \div 4),
          B64Char((bs[1] % 4) * 16 + bs[2] \div 16),
          B64Char((bs[2] % 16) * 4 + bs[3] \div 64),
          B64Char(bs[3] % 64)>> \o b64encode(SubSeq(bs, 4, Len(bs)))

----------------------------------------------------------------------------
(* Content Loader *)

NoneStr == "<None>"

\* a Python value that is None or a str: the literal text of an f-string and the
\* value interpolated after it
NoneError == [none |-> TRUE, text |-> "", arg |-> <<>>]

FString(text, arg) == [none |-> FALSE, text |-> text, arg |-> arg]

\* truth value of a str-or-None: None and '' are false
Truthy(e) == ~e.none /\ (e.text # "" \/ e.arg # <<>>)

NoneData == [none |-> TRUE, filename |-> <<>>, content |-> <<>>, is_image |-> FALSE]

Attachment(filename, content, is_image) ==
    [none |-> FALSE, filename |-> filename, content |-> content, is_image |-> is_image]

\* text decoding that drops what it cannot decode (errors='ignore')
RECURSIVE utf8_decode_ignore(_)
utf8_decode_ignore(bs) ==
    IF bs = <<>> THEN [ok |-> TRUE, text |-> <<>>]
    ELSE LET k == Utf8Len(bs)
         IN  IF k = 0 THEN utf8_decode_ignore(Tail(bs))
             ELSE [ok |-> TRUE,
                   text |-> <<Utf8CodePoint(bs, k)>>
                            \o utf8_decode_ignore(SubSeq(bs, k + 1, Len(bs))).text]

\* the loader with the text decoded leniently
process_file_content_lenient(file) ==
    LET filename == secure_filename(file.filename)
    IN  IF ~is_allowed_file(filename)
        THEN [data |-> NoneData,
              error |-> FString("File type not supported: ", filename),
              read |-> FALSE]
        ELSE IF file.raises
        THEN [data |-> NoneData, error |-> FString(file.exc_msg, <<>>), read |-> TRUE]
        ELSE IF is_image_file(filename)
        THEN [data |-> Attachment(filename, b64encode(file.content), TRUE),
              error |-> NoneError, read |-> TRUE]
        ELSE [data |-> Attachment(filename, utf8_decode_ignore(file.content).text, FALSE),
              error |-> NoneError, read |-> TRUE]

\* the loader with the extension check passing every name
process_file_content_unchecked(file) ==
    LET filename == secure_filename(file.filename)
    IN  IF file.raises
        THEN [data |-> NoneData, error |-> FString(file.exc_msg, <<>>), read |-> TRUE]
        ELSE IF is_image_file(filename)
        THEN [data |-> Attachment(filename, b64encode(file.content), TRUE),
              error |-> NoneError, read |-> TRUE]
        ELSE LET decoded == utf8_decode(file.content)
             IN  IF ~decoded.ok
                 THEN [data |-> NoneData,
                       error |-> FString("Could not decode file as UTF-8 text: ", filename),
                       read |-> TRUE]
                 ELSE [data |-> Attachment(filename, decoded.text, FALSE),
                       error |-> NoneError, read |-> TRUE]

\* process_file_content(file): the pair returned, and whether file.read() was called.
\* file.raises: file.read() raises an exception e with str(e) = file.exc_msg
process_file_content(file) ==
    LET filename == secure_filename(file.filename)
    IN  IF ~is_allowed_file(filename)
        THEN [data |-> NoneData,
              error |-> FString("File type not supported: ", filename),
              read |-> FALSE]
        ELSE IF file.raises
        THEN [data |-> NoneData, error |-> FString(file.exc_msg, <<>>), read |-> TRUE]
        ELSE IF is_image_file(filename)
        THEN [data |-> Attachment(filename, b64encode(file.content), is_image_file(filename)),
              error |-> NoneError, read |-> TRUE]
        ELSE LET decoded == utf8_decode(file.content)
             IN  IF ~decoded.ok
                 THEN [data |-> NoneData,
                       error |-> FString("Could not decode file as UTF-8 text: ", filename),
                       read |-> TRUE]
                 ELSE [data |-> Attachment(filename, decoded.text, is_image_file(filename)),
                       error |-> NoneError, read |-> TRUE]

----------------------------------------------------------------------------
(* Prompt Assembler *)

SystemMessage ==
    [role |-> "system", kind |-> "system", filename |-> <<>>, content |-> <<>>,
     email_content |-> <<>>]

TemplateMessage ==
    [role |-> "user", kind |-> "PROMPT_TEMPLATE", filename |-> <<>>, content |-> <<>>,
     email_content |-> <<>>]

\* {"type": "text", "text": "Attachment: <filename>"} and the data URL of the content
ImageMessage(filename, content) ==
    [role |-> "user", kind |-> "image_url", filename |-> filename, content |-> content,
     email_content |-> <<>>]

SummaryMessage(email_content) ==
    [role |-> "user", kind |-> "email_content", filename |-> <<>>, content |-> <<>>,
     email_content |-> email_content]

\* one piece of the email_content string: the f-string it comes from and its values
Piece(fmt, id, n, s) == [fmt |-> fmt, id |-> id, n |-> n, s |-> s]

\* the for loop over enumerate(files_data, 1) from entry i on: the state it leaves.
\* Subscripting an entry that is None raises TypeError and ends the loop.
RECURSIVE AssembleLoop(_, _, _, _)
AssembleLoop(data, i, msgs, email_content) ==
    IF i > Len(data) THEN [messages |-> msgs, email_content |-> email_content, raised |-> FALSE]
    ELSE IF data[i].none
    THEN [messages |-> msgs, email_content |-> email_content, raised |-> TRUE]
    ELSE LET named == Append(email_content,
                             Piece("Attachment {i}: {filename}", "", i, data[i].filename))
         IN  IF data[i].is_image
             THEN AssembleLoop(data, i + 1,
                               Append(msgs, ImageMessage(data[i].filename, data[i].content)),
                               named)
             ELSE AssembleLoop(data, i + 1, msgs,
                               Append(named, Piece("Content: {content}", "", 0, data[i].content)))

\* lines 224-260 with the mail summary appended before the loop runs
BuildMessagesSummaryFirst(mid, data) ==
    LET start == <<Piece("Mail ID: {mail_id}", mid, 0, <<>>)>>
        loop  == AssembleLoop(data, 1, <<>>,
                              Append(start, Piece("This email has {n} attachment(s):",
                                                  "", Len(data), <<>>)))
    IN  IF data = <<>>
        THEN [messages |-> <<SystemMessage, TemplateMessage,
                             SummaryMessage(Append(start,
                                 Piece("This email has no attachments.", "", 0, <<>>)))>>,
              raised |-> FALSE]
        ELSE IF loop.raised
        THEN [messages |-> <<SystemMessage, TemplateMessage>> \o loop.messages,
              raised |-> TRUE]
        ELSE [messages |-> <<SystemMessage, TemplateMessage,
                             SummaryMessage(loop.email_content)>> \o loop.messages,
              raised |-> FALSE]

\* lines 224-260: the message list built, and whether building it raised
BuildMessages(mid, data) ==
    LET start == <<Piece("Mail ID: {mail_id}", mid, 0, <<>>)>>
        loop  == AssembleLoop(data, 1, <<SystemMessage, TemplateMessage>>,
                              Append(start, Piece("This email has {n} attachment(s):",
                                                  "", Len(data), <<>>)))
    IN  IF data = <<>>
        THEN [messages |-> <<SystemMessage, TemplateMessage,
                             SummaryMessage(Append(start,
                                 Piece("This email has no attachments.", "", 0, <<>>)))>>,
              raised |-> FALSE]
        ELSE IF loop.raised
        THEN [messages |-> loop.messages, raised |-> TRUE]
        ELSE [messages |-> Append(loop.messages, SummaryMessage(loop.email_content)),
              raised |-> FALSE]

----------------------------------------------------------------------------
(* json.loads on the reply, at the level of lexical tokens *)

\* "str" a string literal, "null" a JSON literal or number, "NaN" one of
\* NaN / Infinity / -Infinity, "not" any other bare word
Tokens == {"{", "}", "[", "]", ":", ",", "str", "null", "NaN", "not"}

\* the scalars json.scanner accepts: JSON's, and parse_constant's NaN family
PythonScalars == {"str", "null", "NaN"}

Fail(msg) == [ok |-> FALSE, next |-> 0, msg |-> msg]

Parsed(next) == [ok |-> TRUE, next |-> next, msg |-> ""]

RECURSIVE ParseValue(_, _, _)
RECURSIVE ParseMembers(_, _, _)
RECURSIVE ParseElements(_, _, _)

\* scan_once(string, idx): the index after the value that starts at token i
ParseValue(toks, i, scalars) ==
    IF i > Len(toks) THEN Fail("Expecting value")
    ELSE IF toks[i] \in scalars THEN Parsed(i + 1)
    ELSE IF toks[i] = "{" THEN
        IF i + 1 <= Len(toks) /\ toks[i + 1] = "}" THEN Parsed(i + 2)
        ELSE ParseMembers(toks, i + 1, scalars)
    ELSE IF toks[i] = "[" THEN
        IF i + 1 <= Len(toks) /\ toks[i + 1] = "]" THEN Parsed(i + 2)
        ELSE ParseElements(toks, i + 1, scalars)
    ELSE Fail("Expecting value")

\* JSONObject from a member on: "key" : value, then "," or "}"
ParseMembers(toks, i, scalars) ==
    IF i > Len(toks) \/ toks[i] # "str"
    THEN Fail("Expecting property name enclosed in double quotes")
    ELSE IF i + 1 > Len(toks) \/ toks[i + 1] # ":"
    THEN Fail("Expecting ':' delimiter")
    ELSE LET v == ParseValue(toks, i + 2, scalars)
         IN  IF ~v.ok THEN v
             ELSE IF v.next <= Len(toks) /\ toks[v.next] = "}" THEN Parsed(v.next + 1)
             ELSE IF v.next > Len(toks) \/ toks[v.next] # ","
             THEN Fail("Expecting ',' delimiter")
             ELSE ParseMembers(toks, v.next + 1, scalars)

\* JSONArray from an element on: value, then "," or "]"
ParseElements(toks, i, scalars) ==
    LET v == ParseValue(toks, i, scalars)
    IN  IF ~v.ok THEN v
        ELSE IF v.next <= Len(toks) /\ toks[v.next] = "]" THEN Parsed(v.next + 1)
        ELSE IF v.next > Len(toks) \/ toks[v.next] # ","
        THEN Fail("Expecting ',' delimiter")
        ELSE ParseElements(toks, v.next + 1, scalars)

\* JSONDecoder.decode: one value, then the end of the text
Decode(toks, scalars) ==
    LET v == ParseValue(toks, 1, scalars)
    IN  IF ~v.ok THEN v
        ELSE IF v.next <= Len(toks) THEN Fail("Extra data")
        ELSE v

\* json.loads(text): ok, or JSONDecodeError with message msg
json_loads(toks) == Decode(toks, PythonScalars)

----------------------------------------------------------------------------
(* Values shared by the two routes *)

NoResult ==
    [none |-> TRUE, mail_id |-> "", extracted_data |-> <<>>, status |-> "", error |-> <<>>]

\* the result record of a successful analysis (it has no 'error' key: error = <<>>)
SuccessResult(mid, data) ==
    [none |-> FALSE, mail_id |-> mid, extracted_data |-> data, status |-> "success",
     error |-> <<>>]

\* the result record of the two except clauses; extracted_data is {}
ErrorResult(mid, error) ==
    [none |-> FALSE, mail_id |-> mid, extracted_data |-> <<"{", "}">>, status |-> "error",
     error |-> error]

NoResponse ==
    [code |-> 0, status |-> "", error |-> "", mail_id |-> "", total_attachments |-> 0,
     result |-> NoResult, data |-> <<>>]

NoReply == [none |-> TRUE, tokens |-> <<>>]

\* an uploaded file: its client-side name, its bytes, and whether reading it raises
File(filename, content, raises, exc_msg) ==
    [filename |-> filename, content |-> content, raises |-> raises, exc_msg |-> exc_msg]

\* a request: the X-API-Key header, whether parsing the form raises, the form's
\* mail_id, the uploaded 'files', the query string (key to value) and the route's
\* <subcollection> segment
Request(api_key, form_raises, mid, files, args) ==
    [api_key |-> api_key, form_raises |-> form_raises, mail_id |-> mid, files |-> files,
     args |-> args, subcollection |-> <<>>]

\* outcomes of openai_client.chat.completions.create
ContentReply(tokens) == [kind |-> "content", tokens |-> tokens, msg |-> ""]

NoContentReply == [kind |-> "no_content", tokens |-> <<>>, msg |-> ""]

ApiError(msg) == [kind |-> "raise", tokens |-> <<>>, msg |-> msg]

----------------------------------------------------------------------------
(* POST /process: process_files and analyze_documents_with_openai *)

\* lines 332-339: the form's mail_id, then the test for uploaded files.
\* Reading request.form raises when the body cannot be parsed or is too large.
GetMailId ==
    /\ route = "process"
    /\ pc = "start"
    /\ IF request.form_raises
       THEN /\ pc' = "except"
            /\ UNCHANGED <<mail_id, fileIdx, files_data>>
       ELSE /\ mail_id' = IF request.mail_id = NoneStr THEN "mail_001" ELSE request.mail_id
            /\ files_data' = <<>>
            /\ fileIdx' = 1
            /\ pc' = IF request.files = <<>> THEN "analyze" ELSE "files"
    /\ UNCHANGED <<route, environ, request, response, completion, loadLog, readCount,
                   messages, apiCalls, reply, analysis_result, queryVars>>

\* lines 341-353: one iteration of the loop over the uploaded files
ProcessNextFile ==
    /\ route = "process"
    /\ pc = "files"
    /\ LET file == request.files[fileIdx]
           r    == process_file_content(file)
       IN  IF file.filename = <<>>
           THEN UNCHANGED <<files_data, loadLog, readCount>>
           ELSE /\ loadLog' = Append(loadLog, [file |-> file, data |-> r.data,
                                               error |-> r.error])
                /\ readCount' = readCount + (IF r.read THEN 1 ELSE 0)
                /\ files_data' = IF Truthy(r.error) THEN files_data
                                 ELSE Append(files_data, r.data)
    /\ fileIdx' = fileIdx + 1
    /\ pc' = IF fileIdx = Len(request.files) THEN "analyze" ELSE "files"
    /\ UNCHANGED <<route, environ, request, response, completion, mail_id, messages,
                   apiCalls, reply, analysis_result, queryVars>>

\* lines 221-260, and 285-292 when building the messages raises
AssemblePrompt ==
    /\ route = "process"
    /\ pc = "analyze"
    /\ LET built == BuildMessages(mail_id, files_data)
       IN  /\ messages' = built.messages
           /\ IF built.raised
              THEN /\ analysis_result' =
                        ErrorResult(mail_id, <<"'NoneType' object is not subscriptable">>)
                   /\ pc' = "respond"
              ELSE /\ pc' = "invoke"
                   /\ UNCHANGED analysis_result
    /\ UNCHANGED <<route, environ, request, response, completion, mail_id, fileIdx,
                   files_data, loadLog, readCount, apiCalls, reply, queryVars>>

\* the completion call made again after a failure
InvokeCompletionRetry ==
    /\ route = "process"
    /\ pc = "invoke"
    /\ apiCalls' = apiCalls + 1
    /\ IF completion.kind = "raise"
       THEN IF apiCalls = 0
            THEN UNCHANGED <<pc, reply, analysis_result>>
            ELSE /\ analysis_result' = ErrorResult(mail_id, <<completion.msg>>)
                 /\ pc' = "respond"
                 /\ UNCHANGED reply
       ELSE /\ reply' = [none |-> completion.kind = "no_content",
                         tokens |-> completion.tokens]
            /\ pc' = "parse"
            /\ UNCHANGED analysis_result
    /\ UNCHANGED <<route, environ, request, response, completion, mail_id, fileIdx,
                   files_data, loadLog, readCount, messages, queryVars>>

\* lines 262-267, and 285-292 when the call raises
InvokeCompletion ==
    /\ route = "process"
    /\ pc = "invoke"
    /\ apiCalls' = apiCalls + 1
    /\ IF completion.kind = "raise"
       THEN /\ analysis_result' = ErrorResult(mail_id, <<completion.msg>>)
            /\ pc' = "respond"
            /\ UNCHANGED reply
       ELSE /\ reply' = [none |-> completion.kind = "no_content",
                         tokens |-> completion.tokens]
            /\ pc' = "parse"
            /\ UNCHANGED analysis_result
    /\ UNCHANGED <<route, environ, request, response, completion, mail_id, fileIdx,
                   files_data, loadLog, readCount, messages, queryVars>>

\* lines 269-292: json.loads of the reply and the three ways out
ParseReply ==
    /\ route = "process"
    /\ pc = "parse"
    /\ analysis_result' =
          IF reply.none
          THEN ErrorResult(mail_id,
                   <<"the JSON object must be str, bytes or bytearray, not NoneType">>)
          ELSE LET parsed == json_loads(reply.tokens)
               IN  IF parsed.ok
                   THEN SuccessResult(mail_id, reply.tokens)
                   ELSE ErrorResult(mail_id, <<"JSON parsing error: ", parsed.msg>>)
    /\ pc' = "respond"
    /\ UNCHANGED <<route, environ, request, response, completion, mail_id, fileIdx,
                   files_data, loadLog, readCount, messages, apiCalls, reply, queryVars>>

\* lines 359-364
Respond ==
    /\ route = "process"
    /\ pc = "respond"
    /\ response' = [code |-> 200, status |-> "completed", error |-> "",
                    mail_id |-> mail_id, total_attachments |-> Len(files_data),
                    result |-> analysis_result, data |-> <<>>]
    /\ pc' = "done"
    /\ UNCHANGED <<route, environ, request, procVars, queryVars>>

\* lines 366-368
HandlerExcept ==
    /\ route = "process"
    /\ pc = "except"
    /\ response' = [NoResponse EXCEPT !.code = 500, !.error = "str(e)"]
    /\ pc' = "done"
    /\ UNCHANGED <<route, environ, request, procVars, queryVars>>

NextProcess ==
    \/ GetMailId
    \/ ProcessNextFile
    \/ AssemblePrompt
    \/ InvokeCompletion
    \/ ParseReply
    \/ Respond
    \/ HandlerExcept

\* API_KEY and X-API-Key: no secret configured (unset, or set to ''); a secret
\* and no header, a wrong header, the right header
AuthSamples ==
    { <<NoneStr, NoneStr>>, <<"", "wrong">>, <<"secret", NoneStr>>, <<"secret", "wrong">>,
      <<"secret", "secret">> }

\* the state when the /process request req arrives
InitProcess(key, req, comp) ==
    /\ route = "process"
    /\ environ = [API_KEY |-> key]
    /\ request = req
    /\ completion = comp
    /\ pc = "start"
    /\ response = NoResponse
    /\ mail_id = ""
    /\ fileIdx = 0
    /\ files_data = <<>>
    /\ loadLog = <<>>
    /\ readCount = 0
    /\ messages = <<>>
    /\ apiCalls = 0
    /\ reply = NoReply
    /\ analysis_result = NoResult
    /\ db = [docs |-> <<>>, unavailable |-> FALSE]
    /\ dbQueries = 0
    /\ collection_filters = <<>>
    /\ subcollection_filters = <<>>
    /\ collection_docs = <<>>
    /\ docIdx = 0
    /\ results = <<>>
    /\ resultSrc = <<>>

\* a request whose form cannot be read
BrokenRequest == Request(NoneStr, TRUE, NoneStr, <<>>, <<>>)

----------------------------------------------------------------------------
(* Inputs of the /process specifications *)

\* a.png and b.JPG (images), n.txt with valid and with invalid UTF-8, x.exe, an
\* empty file name, and n.txt whose read raises with and without a message
FileSamples ==
    { File(<<97, 46, 112, 110, 103>>, <<255, 65>>, FALSE, ""),
      File(<<98, 46, 74, 80, 71>>, <<65>>, FALSE, ""),
      File(<<110, 46, 116, 120, 116>>, <<65, 195, 169>>, FALSE, ""),
      File(<<110, 46, 116, 120, 116>>, <<255>>, FALSE, ""),
      File(<<120, 46, 101, 120, 101>>, <<65>>, FALSE, ""),
      File(<<>>, <<>>, FALSE, ""),
      File(<<110, 46, 116, 120, 116>>, <<>>, TRUE, "I/O operation on closed file."),
      File(<<110, 46, 116, 120, 116>>, <<>>, TRUE, "") }

\* the reply {}, the reply `not json`, a failed call
ReplySamples ==
    { ContentReply(<<"{", "}">>), ContentReply(<<"not", "not">>),
      ApiError("Connection error.") }

\* every sequence of at most MaxFiles sample files, with and without a mail_id
InitProcessFiles ==
    \/ \E auth \in AuthSamples, m \in {NoneStr, "m1"}, comp \in ReplySamples,
          fs \in SeqsUpTo(FileSamples, MaxFiles) :
          InitProcess(auth[1], Request(auth[2], FALSE, m, fs, <<>>), comp)
    \/ InitProcess(NoneStr, BrokenRequest, ContentReply(<<"{", "}">>))

SpecProcess == InitProcessFiles /\ [][NextProcess]_vars

\* every reply of at most MaxReplyLen tokens, a reply without content, a failed
\* call; no attachment, an image, a text file
InitInvoke ==
    \/ \E comp \in {ContentReply(t) : t \in SeqsUpTo(Tokens, MaxReplyLen)}
                      \cup {NoContentReply, ApiError("Connection error."), ApiError("")},
          fs \in { <<>>,
                   <<File(<<97, 46, 112, 110, 103>>, <<255, 65>>, FALSE, "")>>,
                   <<File(<<110, 46, 116, 120, 116>>, <<65>>, FALSE, "")>> } :
          InitProcess(NoneStr, Request(NoneStr, FALSE, "m1", fs, <<>>), comp)
    \/ InitProcess(NoneStr, BrokenRequest, ContentReply(<<"{", "}">>))

SpecInvoke == InitInvoke /\ [][NextProcess]_vars

\* file names: a stem of at most MaxStemLen characters of "a", " ", ".", "/",
\* U+00E9, then one of these endings
StemAlphabet == {97, 32, 46, 47, 233}

Endings ==
    ALLOWED_EXTENSIONS \cup
    { <<46, 80, 78, 71>>,                    \* .PNG
      <<46, 84, 120, 116>>,                  \* .Txt
      <<46, 101, 120, 101>>,                 \* .exe
      <<>>,
      <<116, 120, 116>>,                     \* txt
      <<46, 116, 120, 116, 46>>,             \* .txt.
      <<46, 112, 110, 103, 46, 101, 120, 101>>,   \* .png.exe
      <<46, 101, 120, 101, 46, 103, 105, 102>>,   \* .exe.gif
      <<46, 112, 110, 103, 46, 116, 120, 116>> }  \* .png.txt

\* "A", the two bytes of U+00E9 (0xC3 0xA9), the lead byte 0xE2 of a three-byte
\* sequence, and 0xFF
ByteAlphabet == {65, 195, 169, 226, 255}

\* one uploaded file: every name, with every content of at most MaxBytes bytes,
\* or with a read that raises
InitLoader ==
    \/ \E stem \in SeqsUpTo(StemAlphabet, MaxStemLen), ending \in Endings :
          \/ \E c \in SeqsUpTo(ByteAlphabet, MaxBytes) :
                InitProcess(NoneStr,
                            Request(NoneStr, FALSE, "m1",
                                    <<File(stem \o ending, c, FALSE, "")>>, <<>>),
                            ContentReply(<<"{", "}">>))
          \/ \E m \in {"", "I/O operation on closed file."} :
                InitProcess(NoneStr,
                            Request(NoneStr, FALSE, "m1",
                                    <<File(stem \o ending, <<>>, TRUE, m)>>, <<>>),
                            ContentReply(<<"{", "}">>))
    \/ InitProcess(NoneStr, BrokenRequest, ContentReply(<<"{", "}">>))

SpecLoader == InitLoader /\ [][NextProcess]_vars

----------------------------------------------------------------------------
(* GET /collections/<collection>/subcollections/<subcollection> *)

\* str.startswith(prefix)
startswith(s, prefix) ==
    /\ Len(prefix) <= Len(s)
    /\ SubSeq(s, 1, Len(prefix)) = prefix

COLLECTION_PREFIX == <<99, 111, 108, 108, 101, 99, 116, 105, 111, 110, 95>>   \* collection_

SUBCOLLECTION_PREFIX == <<115, 117, 98>> \o COLLECTION_PREFIX                \* subcollection_

ID_KEY == <<105, 100>>                                                       \* id

\* the wrapper's test of the X-API-Key header against os.getenv("API_KEY")
InvalidApiKey(api_key, expected_key) ==
    /\ expected_key # NoneStr
    /\ expected_key # ""
    /\ api_key # expected_key

\* lines 32-42: the wrapper of require_api_key around the route
RequireApiKey ==
    /\ route = "query"
    /\ pc = "start"
    /\ IF InvalidApiKey(request.api_key, environ.API_KEY)
       THEN /\ response' = [NoResponse EXCEPT !.code = 401, !.status = "error",
                                              !.error = "Invalid API key"]
            /\ pc' = "done"
       ELSE /\ pc' = "handler"
            /\ UNCHANGED response
    /\ UNCHANGED <<route, environ, request, procVars, queryVars>>

\* the filter dict made of the query arguments whose key starts with prefix
FiltersOf(args, prefix) ==
    LET keys == {k \in DOMAIN args : startswith(k, prefix)}
        field(k) == SubSeq(k, Len(prefix) + 1, Len(k))
    IN  [f \in {field(k) : k \in keys} |->
            args[CHOOSE k \in keys : field(k) = f]]

\* lines 305-314
ParseArgs ==
    /\ route = "query"
    /\ pc = "handler"
    /\ collection_filters' = FiltersOf(request.args, COLLECTION_PREFIX)
    /\ subcollection_filters' =
          FiltersOf([k \in {a \in DOMAIN request.args : ~startswith(a, COLLECTION_PREFIX)}
                        |-> request.args[k]],
                    SUBCOLLECTION_PREFIX)
    /\ pc' = "query"
    /\ UNCHANGED <<route, environ, request, response, procVars, db, dbQueries,
                   collection_docs, docIdx, results, resultSrc>>

\* a chain of where(field, "==", value) that also passes documents lacking the field
WhereLenient(docs, filters) ==
    SelectSeq(docs, LAMBDA d :
        \A f \in DOMAIN filters : f \in DOMAIN d.fields => d.fields[f] = filters[f])

\* the documents of docs a chain of where(field, "==", value) keeps, in stream order
Where(docs, filters) ==
    SelectSeq(docs, LAMBDA d :
        \A f \in DOMAIN filters : f \in DOMAIN d.fields /\ d.fields[f] = filters[f])

\* {"id": doc.id, **doc.to_dict()}
DocData(doc) == doc.fields @@ (ID_KEY :> doc.id)

\* lines 53-60: the parent query; streaming it raises when the store is unavailable
StreamParents ==
    /\ route = "query"
    /\ pc = "query"
    /\ dbQueries' = dbQueries + 1
    /\ IF db.unavailable
       THEN /\ pc' = "except"
            /\ UNCHANGED <<collection_docs, docIdx, results, resultSrc>>
       ELSE /\ collection_docs' = Where(db.docs, collection_filters)
            /\ results' = <<>>
            /\ resultSrc' = <<>>
            /\ docIdx' = 1
            /\ pc' = IF Where(db.docs, collection_filters) = <<>> THEN "return" ELSE "join"
    /\ UNCHANGED <<route, environ, request, response, procVars, db, collection_filters,
                   subcollection_filters>>

\* the loop body keeping a parent only if it has filtered children
JoinNextParentNonEmptyOnly ==
    /\ route = "query"
    /\ pc = "join"
    /\ LET doc      == collection_docs[docIdx]
           sub_docs == Where(doc.children, subcollection_filters)
           sub_data == [i \in 1..Len(sub_docs) |-> DocData(sub_docs[i])]
       IN  IF sub_data # <<>>
           THEN /\ results' = Append(results, (request.subcollection :> sub_data) @@ DocData(doc))
                /\ resultSrc' = Append(resultSrc, docIdx)
           ELSE UNCHANGED <<results, resultSrc>>
    /\ dbQueries' = dbQueries + 1
    /\ docIdx' = docIdx + 1
    /\ pc' = IF docIdx = Len(collection_docs) THEN "return" ELSE "join"
    /\ UNCHANGED <<route, environ, request, response, procVars, db, collection_filters,
                   subcollection_filters, collection_docs>>

\* lines 62-74: one iteration of the loop over the parent documents
JoinNextParent ==
    /\ route = "query"
    /\ pc = "join"
    /\ LET doc      == collection_docs[docIdx]
           sub_docs == Where(doc.children, subcollection_filters)
           sub_data == [i \in 1..Len(sub_docs) |-> DocData(sub_docs[i])]
       IN  IF DOMAIN subcollection_filters = {} \/ sub_data # <<>>
           THEN /\ results' = Append(results, (request.subcollection :> sub_data) @@ DocData(doc))
                /\ resultSrc' = Append(resultSrc, docIdx)
           ELSE UNCHANGED <<results, resultSrc>>
    /\ dbQueries' = dbQueries + 1
    /\ docIdx' = docIdx + 1
    /\ pc' = IF docIdx = Len(collection_docs) THEN "return" ELSE "join"
    /\ UNCHANGED <<route, environ, request, response, procVars, db, collection_filters,
                   subcollection_filters, collection_docs>>

\* lines 76 and 323
ReturnResults ==
    /\ route = "query"
    /\ pc = "return"
    /\ response' = [NoResponse EXCEPT !.code = 200, !.status = "success", !.data = results]
    /\ pc' = "done"
    /\ UNCHANGED <<route, environ, request, procVars, queryVars>>

\* lines 325-327
QueryExcept ==
    /\ route = "query"
    /\ pc = "except"
    /\ response' = [NoResponse EXCEPT !.code = 500, !.status = "error", !.error = "str(e)"]
    /\ pc' = "done"
    /\ UNCHANGED <<route, environ, request, procVars, queryVars>>

NextQuery ==
    \/ RequireApiKey
    \/ ParseArgs
    \/ StreamParents
    \/ JoinNextParent
    \/ ReturnResults
    \/ QueryExcept

----------------------------------------------------------------------------
(* Inputs of the query specification *)

STATUS == <<115, 116, 97, 116, 117, 115>>          \* status

ITEMS == <<105, 116, 101, 109, 115>>               \* items

\* a document's fields: no status, status "open", status "closed"
FieldSets == {<<>>} \cup {(STATUS :> v) : v \in {"open", "closed"}}

\* documents with the ids <prefix>1, <prefix>2, ... in stream order
Numbered(prefix, docs) ==
    [i \in 1..Len(docs) |-> [docs[i] EXCEPT !.id = prefix \o ToString(i)]]

\* the subcollections of at most MaxChildren documents
ChildLists ==
    { Numbered("c", [i \in 1..Len(fs) |-> [id |-> "", fields |-> fs[i]]]) :
        fs \in SeqsUpTo(FieldSets, MaxChildren) }

\* query strings: none, collection_status=open, subcollection_status=open, both,
\* and both with limit=open
ArgSets ==
    LET c == (COLLECTION_PREFIX \o STATUS) :> "open"
        s == (SUBCOLLECTION_PREFIX \o STATUS) :> "open"
        l == <<108, 105, 109, 105, 116>> :> "open"
    IN  {<<>>, c, s, c @@ s, c @@ s @@ l}

\* the state when the query request arrives at a store in state store
InitQueryWith(auth, args, store) ==
    /\ route = "query"
    /\ environ = [API_KEY |-> auth[1]]
    /\ request = [api_key |-> auth[2], form_raises |-> FALSE, mail_id |-> NoneStr,
                  files |-> <<>>, args |-> args, subcollection |-> ITEMS]
    /\ db = store
    /\ pc = "start"
    /\ response = NoResponse
    /\ completion = NoContentReply
    /\ mail_id = ""
    /\ fileIdx = 0
    /\ files_data = <<>>
    /\ loadLog = <<>>
    /\ readCount = 0
    /\ messages = <<>>
    /\ apiCalls = 0
    /\ reply = NoReply
    /\ analysis_result = NoResult
    /\ dbQueries = 0
    /\ collection_filters = <<>>
    /\ subcollection_filters = <<>>
    /\ collection_docs = <<>>
    /\ docIdx = 0
    /\ results = <<>>
    /\ resultSrc = <<>>

\* a collection of at most MaxParents documents, each with a subcollection, or a
\* store that cannot be reached
InitQuery ==
    \E auth \in AuthSamples, args \in ArgSets :
        \/ \E ds \in SeqsUpTo(FieldSets \X ChildLists, MaxParents) :
              InitQueryWith(auth, args,
                  [docs |-> Numbered("p", [i \in 1..Len(ds) |->
                                [id |-> "", fields |-> ds[i][1], children |-> ds[i][2]]]),
                   unavailable |-> FALSE])
        \/ InitQueryWith(auth, args, [docs |-> <<>>, unavailable |-> TRUE])

SpecQuery == InitQuery /\ [][NextQuery]_vars

----------------------------------------------------------------------------
(* Properties *)

\* the name has one of the extensions, compared case-insensitively
HasExtensionIn(name, extensions) ==
    \E ext \in extensions : endswith(lower(name), ext)

\* d satisfies every equality of the filter set
Satisfies(d, filters) ==
    \A f \in DOMAIN filters : f \in DOMAIN d.fields /\ d.fields[f] = filters[f]

\* the parents the loop of query_firestore_with_subcollection has gone through
Processed == IF pc = "join" THEN 1..(docIdx - 1) ELSE 1..Len(collection_docs)

\* C1: for every parent returned by the parent query and gone through by the
\* loop: with a non-empty subcollection filter set the parent is in the result
\* iff one of its subcollection documents matches the filters; with an empty one
\* every parent is in the result, those without children included.  Each result
\* entry is built from the parent it is recorded for, once, in fetch order.
C1_InclusionInvariant ==
    (route = "query" /\ pc \in {"join", "return", "done"} /\ response.code \in {0, 200}) =>
        /\ \A j \in Processed :
              LET doc == collection_docs[j]
              IN  (j \in Range(resultSrc)) <=>
                     \/ DOMAIN subcollection_filters = {}
                     \/ \E c \in Range(doc.children) : Satisfies(c, subcollection_filters)
        /\ Len(resultSrc) = Len(results)
        /\ \A k \in 1..Len(results) :
              /\ resultSrc[k] \in Processed
              /\ results[k][ID_KEY] = collection_docs[resultSrc[k]].id
              /\ \A m \in 1..(k - 1) : resultSrc[m] < resultSrc[k]
        /\ (pc = "done" => response.data = results)

\* C1 witness: a finished query with a non-empty subcollection filter in which a
\* fetched parent has children, none of them matching, and is left out
C1_Witness ==
    /\ route = "query"
    /\ pc = "done"
    /\ response.code = 200
    /\ DOMAIN subcollection_filters # {}
    /\ \E j \in 1..Len(collection_docs) :
          /\ collection_docs[j].children # <<>>
          /\ j \notin Range(resultSrc)

\* C2: with an API key secret configured, a request to a processing endpoint
\* whose X-API-Key header is absent or differs from the secret is answered 401
\* before any processing: no attachment is read, no completion call is made, no
\* database query is run.
C2_RejectedBeforeProcessing ==
    (environ.API_KEY \notin {NoneStr, ""} /\ request.api_key # environ.API_KEY) =>
        /\ readCount = 0
        /\ apiCalls = 0
        /\ dbQueries = 0
        /\ loadLog = <<>>
        /\ (pc = "done" => response.code = 401)

\* RFC 8259: the scalars of JSON have no NaN, Infinity or -Infinity
JsonScalars == {"str", "null"}

IsValidJSON(toks) == Decode(toks, JsonScalars).ok

\* C3: when the model's text is not valid JSON the request is answered 200 with
\* an error record under 'result': status 'error', a JSON parsing error message,
\* empty extracted_data; any other failure of the completion call gives the same
\* record with the underlying message as the error.
C3_NonJsonReplyIsError ==
    (route = "process" /\ pc = "done" /\ apiCalls = 1) =>
        /\ (completion.kind = "content" /\ ~IsValidJSON(completion.tokens)) =>
              /\ response.code = 200
              /\ response.result.status = "error"
              /\ response.result.extracted_data = <<"{", "}">>
              /\ Len(response.result.error) = 2
              /\ response.result.error[1] = "JSON parsing error: "
        /\ completion.kind = "raise" =>
              /\ response.code = 200
              /\ response.result.status = "error"
              /\ response.result.extracted_data = <<"{", "}">>
              /\ response.result.error = <<completion.msg>>

\* the attachments process_file_content produced, in upload order
LoadedAttachments ==
    LET loaded == SelectSeq(loadLog, LAMBDA e : ~e.data.none)
    IN  [i \in 1..Len(loaded) |-> loaded[i].data]

\* C4: a file whose loading fails is dropped and the others are still processed:
\* the list handed to the analyzer is exactly the successfully loaded attachments
\* in upload order, total_attachments is its length, and the completion step
\* runs even if every file was dropped.
C4_FailedFilesDropped ==
    (route = "process" /\ pc \in {"analyze", "invoke", "parse", "respond", "done"}
        /\ response.code \in {0, 200}) =>
        /\ files_data = LoadedAttachments
        /\ (pc = "done" =>
              /\ response.total_attachments = Len(LoadedAttachments)
              /\ apiCalls = 1)

\* C5: every returned record is built from a parent of the collection that
\* satisfies every equality of the parent filter set, and the sequence under the
\* subcollection name holds exactly the children of that parent that satisfy
\* every equality of the child filter set, in stream order; all of them when the
\* child filter set is empty.
C5_JoinedRecords ==
    route = "query" =>
        \A k \in 1..Len(results) :
            LET doc  == collection_docs[resultSrc[k]]
                kept == SelectSeq(doc.children,
                                  LAMBDA c : Satisfies(c, subcollection_filters))
                sub  == results[k][request.subcollection]
            IN  /\ doc \in Range(db.docs)
                /\ Satisfies(doc, collection_filters)
                /\ Len(sub) = Len(kept)
                /\ \A i \in 1..Len(kept) :
                      /\ sub[i][ID_KEY] = kept[i].id
                      /\ \A f \in DOMAIN kept[i].fields : sub[i][f] = kept[i].fields[f]
                /\ (DOMAIN subcollection_filters = {} => Len(sub) = Len(doc.children))

\* C5 witness: both filter sets non-empty, and a returned parent with two
\* children of which exactly one passes the child filter
C5_Witness ==
    /\ route = "query"
    /\ pc = "done"
    /\ DOMAIN collection_filters # {}
    /\ DOMAIN subcollection_filters # {}
    /\ \E k \in 1..Len(results) :
          /\ Len(collection_docs[resultSrc[k]].children) = 2
          /\ Len(results[k][request.subcollection]) = 1

\* C6 as stated: for a name with an allowed extension and any bytes read, the
\* loader produces an Attachment whose is_image flag is true exactly when the
\* extension is an image extension.
C6_AllowedAlwaysLoads ==
    \A e \in Range(loadLog) :
        LET name == secure_filename(e.file.filename)
        IN  (HasExtensionIn(name, ALLOWED_EXTENSIONS) /\ ~e.file.raises) =>
                /\ ~e.data.none
                /\ e.data.is_image <=> HasExtensionIn(name, IMAGE_EXTENSIONS)

\* C6 amended: for a name with an allowed extension and any bytes read, the
\* loader produces an Attachment exactly when the extension is an image
\* extension or the bytes are valid UTF-8, and every Attachment it produces
\* carries the sanitized name and an is_image flag that is true exactly when the
\* extension, compared case-insensitively, is an image extension.
C6_FlagMatchesExtension ==
    \A e \in Range(loadLog) :
        LET name == secure_filename(e.file.filename)
        IN  /\ (HasExtensionIn(name, ALLOWED_EXTENSIONS) /\ ~e.file.raises) =>
                  (~e.data.none <=>
                      \/ HasExtensionIn(name, IMAGE_EXTENSIONS)
                      \/ utf8_decode(e.file.content).ok)
            /\ ~e.data.none =>
                  /\ e.data.filename = name
                  /\ e.data.is_image <=> HasExtensionIn(name, IMAGE_EXTENSIONS)
                  /\ e.error.none

\* C6 witness: an Attachment made from a name with an upper-case image
\* extension, flagged as an image
C6_Witness ==
    \E e \in Range(loadLog) :
        /\ ~e.data.none
        /\ e.data.is_image
        /\ e.data.filename # lower(e.data.filename)
        /\ e.file.content # <<>>

\* C7: for every name whose extension is not in the allow-list the loader
\* returns no Attachment and the 'type not supported' message carrying that name,
\* whatever the content of the file; the file is not read.
C7_UnsupportedRejected ==
    /\ \A e \in Range(loadLog) :
          LET name == secure_filename(e.file.filename)
          IN  ~HasExtensionIn(name, ALLOWED_EXTENSIONS) =>
                  /\ e.data.none
                  /\ e.error = FString("File type not supported: ", name)
    /\ readCount = Cardinality({n \in 1..Len(loadLog) :
              HasExtensionIn(secure_filename(loadLog[n].file.filename), ALLOWED_EXTENSIONS)})

\* C7 witness: a file with content and the name of a disallowed type, rejected
\* with the message carrying its name
C7_Witness ==
    \E e \in Range(loadLog) :
        /\ e.file.content # <<>>
        /\ e.data.none
        /\ e.error.text = "File type not supported: "
        /\ e.error.arg # <<>>
        /\ endswith(e.error.arg, <<46, 101, 120, 101>>)

\* C8: an attachment with an allowed non-image extension whose bytes are not
\* valid UTF-8 fails with the 'could not decode' message carrying the name and
\* gives no Attachment; the content of a non-image Attachment is always the exact
\* UTF-8 decoding of the uploaded bytes.
C8_UndecodableRejected ==
    \A e \in Range(loadLog) :
        LET name == secure_filename(e.file.filename)
        IN  /\ ( /\ HasExtensionIn(name, ALLOWED_EXTENSIONS)
                 /\ ~HasExtensionIn(name, IMAGE_EXTENSIONS)
                 /\ ~e.file.raises
                 /\ ~utf8_decode(e.file.content).ok ) =>
                    /\ e.data.none
                    /\ e.error = FString("Could not decode file as UTF-8 text: ", name)
            /\ (~e.data.none /\ ~e.data.is_image) =>
                    /\ utf8_decode(e.file.content).ok
                    /\ e.data.content = utf8_decode(e.file.content).text

\* C8 witness: a text file holding the byte 0xFF, rejected as undecodable
C8_Witness ==
    \E e \in Range(loadLog) :
        /\ 255 \in Range(e.file.content)
        /\ e.data.none
        /\ e.error.text = "Could not decode file as UTF-8 text: "

\* the message list is complete: the summary message has been appended
Assembled == \E i \in 1..Len(messages) : messages[i].kind = "email_content"

ImageAttachments == SelectSeq(files_data, LAMBDA a : a.is_image)

TextAttachments == SelectSeq(files_data, LAMBDA a : ~a.is_image)

\* C9 as stated: system instruction, template, then the mail-summary block,
\* then one image message per image attachment in upload order; no image
\* message precedes the mail-summary block.
C9_SummaryBeforeImages ==
    (route = "process" /\ Assembled) =>
        /\ messages[1] = SystemMessage
        /\ messages[2] = TemplateMessage
        /\ messages[3].kind = "email_content"
        /\ \A i \in 1..Len(messages) :
              messages[i].kind = "image_url" =>
                  \E j \in 1..(i - 1) : messages[j].kind = "email_content"

\* C9 amended: the message list is the system instruction, the template, one
\* image message per image attachment in upload order, and last the mail-summary
\* block (mail id, attachment count, every attachment's name, the inlined texts
\* of the non-image attachments in upload order); no image message follows the
\* mail-summary block.
C9_SummaryAfterImages ==
    (route = "process" /\ Assembled) =>
        LET summary == Last(messages).email_content
            texts   == SelectSeq(summary, LAMBDA p : p.fmt = "Content: {content}")
            names   == SelectSeq(summary, LAMBDA p : p.fmt = "Attachment {i}: {filename}")
        IN  /\ Len(messages) = Len(ImageAttachments) + 3
            /\ Last(messages).kind = "email_content"
            /\ messages[1] = SystemMessage
            /\ messages[2] = TemplateMessage
            /\ \A i \in 1..Len(ImageAttachments) :
                  messages[2 + i] = ImageMessage(ImageAttachments[i].filename,
                                                 ImageAttachments[i].content)
            /\ summary[1] = Piece("Mail ID: {mail_id}", mail_id, 0, <<>>)
            /\ summary[2].n = (IF files_data = <<>> THEN 0 ELSE Len(files_data))
            /\ Len(names) = Len(files_data)
            /\ \A i \in 1..Len(names) :
                  names[i].n = i /\ names[i].s = files_data[i].filename
            /\ Len(texts) = Len(TextAttachments)
            /\ \A i \in 1..Len(texts) : texts[i].s = TextAttachments[i].content

\* C9 witness: a message list built from two different images and a text file
C9_Witness ==
    /\ route = "process"
    /\ Assembled
    /\ Len(ImageAttachments) = 2
    /\ ImageAttachments[1] # ImageAttachments[2]
    /\ Len(TextAttachments) = 1

\* C10: a request that reaches the completion call (its message list was
\* assembled) makes exactly one call of the completion API, whatever the number
\* of attachments and whether the call succeeds, fails or returns non-JSON text;
\* no request makes a second call.
C10_SingleCall ==
    route = "process" =>
        /\ apiCalls <= 1
        /\ pc \in {"start", "files", "analyze", "invoke", "except"} => apiCalls = 0
        /\ pc = "parse" => apiCalls = 1
        /\ (pc \in {"respond", "done"} /\ Assembled) => apiCalls = 1
        /\ (pc \in {"respond", "done"} /\ ~Assembled) => apiCalls = 0

\* C10 witness: a request without attachments whose completion call failed,
\* answered after one call
C10_Witness ==
    /\ route = "process"
    /\ pc = "done"
    /\ files_data = <<>>
    /\ completion.kind = "raise"
    /\ response.code = 200
    /\ apiCalls = 1

=============================================================================
